---- MODULE Spec2Model ----
(***************************************************************************)
(* Scan lifecycle of the nmap scanner backend: the create/cancel/delete    *)
(* endpoints of app/api/scans.py, the background task run_scan_background  *)
(* and NmapScanner.execute_scan of app/services/scanner.py, over the       *)
(* scans / scan_results / scan_logs tables of app/models/scan.py.          *)
(*                                                                         *)
(* Every `await` on the database is one step; the synchronous loop of      *)
(* _process_scan_results is split per host so that the executor threads    *)
(* running PortScanner.scan (real threads) can interleave with it, and     *)
(* nothing else can.                                                       *)
(*                                                                         *)
(* The host normalizer of _process_scan_results is computed on strings as  *)
(* sequences of characters. The template endpoints of app/api/templates.py *)
(* and the JSON report of app/api/reports.py have their own sections.      *)
(***************************************************************************)
EXTENDS Integers, Sequences, FiniteSets, TLC

\* ------------------------------------------------------------------ bounds
MaxScans == 2          \* scan records ever created
MaxCancel == 1         \* cancel requests in flight at once

MaxTemplates == 2      \* template rows ever created
MaxTemplateReqs == 2   \* template requests in flight at once

ScanIds == 1..MaxScans
\* ids a request may carry: 0 is a uuid no scan ever had
RequestIds == 0..MaxScans
CancelSlots == 1..MaxCancel
\* ids a template request may carry: 0 is a uuid no template ever had
TemplateRequestIds == 0..MaxTemplates
TemplateSlots == 1..MaxTemplateReqs

\* settings.MAX_CONCURRENT_SCANS
MAX_CONCURRENT_SCANS == 5
\* one scan more than that
BurstIds == 1..(MAX_CONCURRENT_SCANS + 1)
TemplateNames == {"a", "b"}

\* Optional[T]: None is the empty set, a value x is {x}
None == {}
Some(x) == {x}
TheValue(o) == CHOOSE x \in o : TRUE
Truthy(o) == o # None /\ o # Some("")

\* ------------------------------------------------------------- strings
\* a str is the sequence of its characters; "" is << >>
Whitespace == {" ", "\t", "\n", "\r"}

\* pat in s
Contains(s, pat) ==
    \E i \in 1..(Len(s) - Len(pat) + 1) : SubSeq(s, i, i + Len(pat) - 1) = pat

\* s.startswith(c), c one character
startswith(s, c) == s # <<>> /\ s[1] = c

\* s.find(c), 0 if absent
find(s, c) ==
    IF \E i \in 1..Len(s) : s[i] = c
    THEN CHOOSE i \in 1..Len(s) : s[i] = c /\ \A j \in 1..(i - 1) : s[j] # c
    ELSE 0

\* s.split(sep): every piece, empty ones included
RECURSIVE split_sep(_, _)
split_sep(s, sep) ==
    IF find(s, sep) = 0 THEN <<s>>
    ELSE <<SubSeq(s, 1, find(s, sep) - 1)>>
            \o split_sep(SubSeq(s, find(s, sep) + 1, Len(s)), sep)

\* s.split(sep, 1)
split_maxsplit1(s, sep) ==
    IF find(s, sep) = 0 THEN <<s>>
    ELSE << SubSeq(s, 1, find(s, sep) - 1), SubSeq(s, find(s, sep) + 1, Len(s)) >>

RECURSIVE lstrip(_)
lstrip(s) == IF s # <<>> /\ Head(s) \in Whitespace THEN lstrip(Tail(s)) ELSE s

RECURSIVE rstrip(_)
rstrip(s) ==
    IF s # <<>> /\ s[Len(s)] \in Whitespace
    THEN rstrip(SubSeq(s, 1, Len(s) - 1)) ELSE s

\* s.strip()
strip(s) == rstrip(lstrip(s))

\* s.split(): the words between runs of whitespace
RECURSIVE split(_)
split(s) ==
    LET t == lstrip(s)
        ws == { i \in 1..Len(t) : t[i] \in Whitespace }
        n == IF ws = {} THEN Len(t) + 1
             ELSE CHOOSE i \in ws : \A j \in ws : i <= j
    IN  IF t = <<>> THEN <<>>
        ELSE <<SubSeq(t, 1, n - 1)>> \o split(SubSeq(t, n, Len(t)))

\* the literals _process_scan_results looks for
s_nbstat == <<"n","b","s","t","a","t">>
s_smb_os_discovery ==
    <<"s","m","b","-","o","s","-","d","i","s","c","o","v","e","r","y">>
s_00 == <<"<","0","0",">">>
s_Workstation == <<"W","o","r","k","s","t","a","t","i","o","n">>
s_UNIQUE == <<"U","N","I","Q","U","E">>
s_Computer_name == <<"C","o","m","p","u","t","e","r"," ","n","a","m","e",":">>
s_NetBIOS_computer_name ==
    <<"N","e","t","B","I","O","S"," ","c","o","m","p","u","t","e","r"," ",
      "n","a","m","e",":">>

\* ------------------------------------------------------ external scanner
\* one entry of PortScanner's result: what nmap reported for a host
HostDict(hostnames, addresses, vendor, state) ==
    [ hostnames |-> hostnames, addresses |-> addresses, vendor |-> vendor,
      status |-> [state |-> state] ]

NoVendor == [m \in {} |-> ""]

PTR(name) == [name |-> name, type |-> "PTR"]
User(name) == [name |-> name, type |-> "user"]

\* hosts are addresses 10.0.0.<n>; the external tool's findings per target
NmapOutput(target) ==
    IF target = "netA"
    THEN (1 :> ( HostDict(<<PTR(<<"a">>)>>,
                          [ipv4 |-> "10.0.0.1", mac |-> "00:11:22:33:44:55"],
                          ("00:11:22:33:44:55" :> "Acme"), "up")
                 @@ [tcp |-> (22 :> [state |-> "open", name |-> "ssh"]
                              @@ 80 :> [state |-> "closed", name |-> "http"])] )
          @@ 2 :> HostDict(<<>>, [ipv4 |-> "10.0.0.2"], NoVendor, "up"))
    ELSE (1 :> HostDict(<<>>, [ipv4 |-> "10.0.0.1"], NoVendor, "down"))

\* ---- what nmap may report for one host: the inputs of the normalizer
n_p == <<"p">>
n_q == <<"q">>
n_u == <<"u">>

HostnamesInputs ==
    { <<>>, <<PTR(<<>>)>>, <<PTR(n_p)>>, <<PTR(<<>>), PTR(n_q)>>,
      <<User(<<>>), PTR(n_q)>>, <<PTR(n_p), User(n_u)>> }

\* lines of script output
l_names == <<"N","a","m","e","s",":">>
l_nbstat_flags == s_00 \o <<" ">> \o s_Workstation
l_nbstat_name == <<" ","W">> \o s_00 \o <<" ">> \o s_UNIQUE
l_computer == s_Computer_name \o <<" ","C"," ">>
l_computer_empty == s_Computer_name \o <<" ">>
l_netbios == <<" ">> \o s_NetBIOS_computer_name \o <<" ","N">>

\* "\n".join(lines)
RECURSIVE join(_)
join(lines) ==
    IF lines = <<>> THEN <<>>
    ELSE IF Len(lines) = 1 THEN lines[1]
    ELSE lines[1] \o <<"\n">> \o join(Tail(lines))

Script(id, lines) == [id |-> id, output |-> join(lines)]

nb_yes == Script(s_nbstat, <<l_names, l_nbstat_flags, l_nbstat_name>>)
nb_no == Script(s_nbstat, <<l_names, l_nbstat_flags>>)
nb_silent == Script(s_nbstat, <<>>)
smb_computer == Script(s_smb_os_discovery, <<l_names, l_computer, l_netbios>>)
smb_netbios == Script(s_smb_os_discovery, <<l_netbios>>)
smb_empty == Script(s_smb_os_discovery, <<l_computer_empty, l_netbios>>)
other_script == Script(<<"x">>, <<l_nbstat_name, l_computer>>)

\* Some(list) is nm[host]['hostscript']; None is a host without that key
HostscriptInputs ==
    { None, Some(<<>>), Some(<<nb_yes>>), Some(<<nb_no>>), Some(<<nb_silent>>),
      Some(<<smb_computer>>), Some(<<smb_netbios>>), Some(<<smb_empty>>),
      Some(<<nb_yes, smb_computer>>), Some(<<smb_computer, nb_yes>>),
      Some(<<nb_no, smb_netbios>>), Some(<<smb_empty, nb_yes>>),
      Some(<<smb_empty, nb_no>>), Some(<<other_script, smb_netbios>>) }

\* addresses, vendor and ports
HardwareInputs ==
    { [ addresses |-> [ipv4 |-> "10.0.0.1"], vendor |-> NoVendor ],
      [ addresses |-> [ipv4 |-> "10.0.0.1", mac |-> "00:11:22:33:44:55"],
        vendor |-> ("00:11:22:33:44:55" :> "Acme"),
        tcp |-> (22 :> [state |-> "open", name |-> "ssh"]) ],
      [ addresses |-> [ipv4 |-> "10.0.0.1", mac |-> "66:77:88:99:aa:bb"],
        vendor |-> NoVendor,
        tcp |-> (22 :> [state |-> "open", name |-> "ssh"]
                 @@ 80 :> [state |-> "closed", name |-> "http"]),
        udp |-> (53 :> [name |-> "domain"]) ] }

HostInputs ==
    { [hostnames |-> hn, status |-> [state |-> "up"]] @@ hw @@ hs :
        hn \in HostnamesInputs, hw \in HardwareInputs,
        hs \in { IF o = None THEN [k \in {} |-> <<>>]
                 ELSE [hostscript |-> CHOOSE x \in o : TRUE] :
                 o \in HostscriptInputs } }

\* PortScanner._scan_result: the hosts found and the command line run
PortScannerResult(target, arguments) ==
    [ scan |-> NmapOutput(target), command_line |-> <<target, arguments>> ]

EmptyScanResult == [ scan |-> [h \in {} |-> <<>>], command_line |-> <<>> ]

RECURSIVE SortedSeq(_)
SortedSeq(S) ==
    IF S = {} THEN <<>>
    ELSE LET m == CHOOSE x \in S : \A y \in S : x <= y
         IN <<m>> \o SortedSeq(S \ {m})

\* PortScanner.all_hosts(): the sorted keys of the last scan result
all_hosts(scan_result) == SortedSeq(DOMAIN scan_result.scan)

\* ------------------------------------------------------------- templates
get_scan_templates ==
    [ quick          |-> "-F -T4",
      full           |-> "-p- -T4",
      udp            |-> "-sU --top-ports 100 -T4",
      discovery      |-> "-sn -PE -PP -PM --dns-servers 8.8.8.8,1.1.1.1 -T4",
      local_network  |-> "-sn -PR --dns-servers 8.8.8.8,1.1.1.1 -T4",
      web_server     |-> "-p 80,443,8080,8443,3000,5000,8000 -sV --script http-title,http-methods,http-headers -T4",
      db_server      |-> "-p 3306,5432,1433,1521,27017,6379,5984,9200,11211 -sV -T4",
      mail_server    |-> "-p 25,110,143,465,587,993,995 -sV --script smtp-commands,pop3-capabilities,imap-capabilities -T4",
      ftp_ssh_server |-> "-p 20,21,22,23,990,2121,2222 -sV --script ftp-anon,ssh-auth-methods -T4",
      dns_server     |-> "-p 53 -sU -sV --script dns-nsid,dns-recursion -T4",
      service        |-> "-sV -O -T4",
      vulnerability  |-> "-sV --script vuln -T4",
      security_audit |-> "-p- -sV --script ssl-cert,ssl-enum-ciphers,ssh-auth-methods -T4",
      stealth        |-> "-sS -T2 -f",
      aggressive     |-> "-A -T4" ]

\* -------------------------------------------------------------- requests
ScanCreate(name, target, scan_type, nmap_arguments, configuration) ==
    [ name |-> name, target |-> target, scan_type |-> scan_type,
      nmap_arguments |-> nmap_arguments, configuration |-> configuration ]

\* the fields of ScanConfiguration and their Field(default=...)
ScanConfigurationDefaults ==
    [ timeout |-> 1800, max_hosts |-> 256, timing |-> "T4",
      additional_args |-> "" ]

\* ScanConfiguration parsed from the JSON object of the request: a field
\* the object leaves out takes its default, a key that is no field is
\* ignored
ScanConfiguration(body) ==
    [ k \in DOMAIN ScanConfigurationDefaults |->
        IF k \in DOMAIN body THEN body[k] ELSE ScanConfigurationDefaults[k] ]

\* BaseModel.model_dump(): the dict of the model's fields
model_dump(m) == [ k \in DOMAIN ScanConfigurationDefaults |-> m[k] ]

\* the JSON objects sent as "configuration"
cfg_full == [ timing |-> "T2", additional_args |-> "-v" ]
cfg_timing == [ timing |-> "T2" ]
cfg_empty == [ k \in {} |-> "" ]
cfg_extra == [ additional_args |-> "-v", profile |-> "home" ]

\* the requests tried; each has its own name, which the stored row keeps
AllRequests ==
    { ScanCreate("r1", "netA", "quick", None, None),
      ScanCreate("r2", "netB", "custom", Some("-sV"), None),
      ScanCreate("r3", "netA", "quick", Some(""), Some(ScanConfiguration(cfg_full))),
      ScanCreate("r4", "netB", "quick", Some("-sV"), None),
      ScanCreate("r5", "netB", "custom", Some(""), None),
      ScanCreate("r6", "netA", "custom", None, None),
      ScanCreate("r7", "netB", "custom", Some("-sV"), Some(ScanConfiguration(cfg_timing))),
      ScanCreate("r8", "netA", "quick", None, Some(ScanConfiguration(cfg_empty))),
      ScanCreate("r9", "netA", "quick", None, Some(ScanConfiguration(cfg_extra))) }

Request(name) == CHOOSE req \in AllRequests : req.name = name

\* the requests of the lifecycle specification
Requests == { Request("r1"), Request("r2"), Request("r5") }

\* ----------------------------------------------------------------- state
VARIABLES
    scans,          \* table scans: id -> row, DOMAIN = ids of stored rows
    scan_results,   \* table scan_results, in insertion order
    scan_logs,      \* table scan_logs, in insertion order
    now,            \* database clock behind created_at
    next_id,        \* next fresh scan id (uuid4 never repeats)
    active_scans,   \* NmapScanner.active_scans: dict scan id -> bool
    nm,             \* the one shared PortScanner's last scan result
    task,           \* per scan: the background task and its db session
    looping,        \* scan whose task runs the synchronous result loop, or 0
    cancel_req,     \* cancel requests between their SELECT and their commit
    response,       \* endpoint and status code of the last finished request
    scan_templates, \* table scan_templates: id -> row
    next_template_id,   \* next fresh template id
    template_req    \* template requests between their awaits

\* the template endpoints' state, which the scan lifecycle never touches
template_vars == << scan_templates, next_template_id, template_req >>

vars == << scans, scan_results, scan_logs, now, next_id, active_scans, nm,
           task, looping, cancel_req, response, template_vars >>

Statuses == {"pending", "running", "completed", "failed", "cancelled"}

NoTask ==
    [ pc |-> "none", target |-> "", arguments |-> "", hosts |-> <<>>,
      todo |-> <<>>,
      pending |-> <<>>, results |-> <<>>, exc |-> "", outcome |-> "none",
      hosts_scanned |-> 0, background |-> "none" ]

IdleCancel == [ id |-> 0, seen |-> "idle" ]

\* a template request: which handler, at which await, with what it holds
TemplateReq(op, id, name, loaded) ==
    [ op |-> op, id |-> id, name |-> name, loaded |-> loaded ]

IdleTemplateReq == TemplateReq("idle", 0, None, None)

\* no template stored, no request in flight
InitTemplates ==
    /\ scan_templates = [t \in {} |-> 0]
    /\ next_template_id = 1
    /\ template_req = [r \in TemplateSlots |-> IdleTemplateReq]

HTTP(endpoint, code) == [ endpoint |-> endpoint, code |-> code ]

Init ==
    /\ scans = [i \in {} |-> 0]
    /\ scan_results = <<>>
    /\ scan_logs = <<>>
    /\ now = 1
    /\ next_id = 1
    /\ active_scans = [i \in {} |-> TRUE]
    /\ nm = EmptyScanResult
    /\ task = [s \in ScanIds |-> NoTask]
    /\ looping = 0
    /\ cancel_req = [r \in CancelSlots |-> IdleCancel]
    /\ response = HTTP("none", 0)
    /\ InitTemplates

\* ------------------------------------------------------ table operations
Exists(id) == id \in DOMAIN scans

\* (a variant without the constraint)
ForeignKeyOk_unchecked(tbl, scan_id) == TRUE

\* ForeignKey("scans.id") of scan_results.scan_id and scan_logs.scan_id
ForeignKeyOk(tbl, scan_id) == scan_id \in DOMAIN tbl

Restrict(f, D) == [x \in D |-> f[x]]

\* SELECT ... WHERE scan_id = id, in table order
WhereScanId(seq, id) == SelectSeq(seq, LAMBDA r : r.scan_id = id)

\* (a variant whose status column defaults to another word)
Scan_queued(req) ==
    [ name |-> req.name, target |-> req.target, scan_type |-> req.scan_type,
      status |-> "queued", progress |-> 0, started_at |-> None,
      completed_at |-> None, error_message |-> None,
      configuration |-> IF req.configuration # None
                        THEN Some(model_dump(TheValue(req.configuration)))
                        ELSE None ]

\* Scan(...) with the column defaults of the model
Scan(req) ==
    [ name |-> req.name, target |-> req.target, scan_type |-> req.scan_type,
      status |-> "pending", progress |-> 0, started_at |-> None,
      completed_at |-> None, error_message |-> None,
      configuration |-> IF req.configuration # None
                        THEN Some(model_dump(TheValue(req.configuration)))
                        ELSE None ]

\* UPDATE scans SET <update_data> WHERE id = scan_id; no row, no change
update_scan_status(tbl, scan_id, update_data) ==
    IF scan_id \in DOMAIN tbl
    THEN [tbl EXCEPT ![scan_id] = update_data @@ @]
    ELSE tbl

\* INSERT INTO scan_logs (the foreign key is checked by the caller)
add_log(tbl, scan_id, level, message, created_at) ==
    Append(tbl, [ scan_id |-> scan_id, level |-> level, message |-> message,
                  created_at |-> created_at ])

\* ------------------------------------- _process_scan_results, per host
\* `if hostname`: an Optional[str] that is neither None nor ""
Named(o) == o # None /\ o # Some(<<>>)

\* PortScannerHostDict.hostname(): the name of type user, else the first
hostname(h) ==
    LET user == SelectSeq(h.hostnames, LAMBDA hn : hn.type = "user")
    IN  IF user # <<>> THEN user[1].name
        ELSE IF h.hostnames # <<>> THEN h.hostnames[1].name
        ELSE <<>>

\* lines 99-107: the primary name, else the first non-empty listed name
hostname_from_hostnames(h) ==
    IF hostname(h) # <<>> THEN Some(hostname(h))
    ELSE IF "hostnames" \in DOMAIN h /\ h.hostnames # <<>>
    THEN LET named == SelectSeq(h.hostnames, LAMBDA hn : hn.name # <<>>)
         IN  IF named # <<>> THEN Some(named[1].name) ELSE None
    ELSE None

\* lines 157-164: the loop over the lines of an nbstat output
RECURSIVE nbstat_lines(_, _)
nbstat_lines(lines, name) ==
    IF lines = <<>> THEN name
    ELSE LET line == Head(lines)
             parts == split(line)
         IN  IF /\ Contains(line, s_00)
                /\ (Contains(line, s_Workstation) \/ Contains(line, s_UNIQUE))
                /\ parts # <<>> /\ parts[1] # <<>>
                /\ ~startswith(parts[1], "<")
             THEN Some(strip(parts[1]))
             ELSE nbstat_lines(Tail(lines), name)

\* lines 168-180: the loop over the lines of an smb-os-discovery output
RECURSIVE smb_os_discovery_lines(_, _)
smb_os_discovery_lines(lines, name) ==
    IF lines = <<>> THEN name
    ELSE LET line == Head(lines)
             parts == split_maxsplit1(line, ":")
         IN  IF Contains(line, s_Computer_name) /\ Len(parts) > 1
             THEN Some(strip(parts[2]))
             ELSE IF /\ ~Contains(line, s_Computer_name)
                     /\ Contains(line, s_NetBIOS_computer_name)
                     /\ Len(parts) > 1
             THEN Some(strip(parts[2]))
             ELSE smb_os_discovery_lines(Tail(lines), name)

\* lines 150-183: the loop over the host scripts
RECURSIVE hostscript_loop(_, _)
hostscript_loop(scripts, name) ==
    IF scripts = <<>> THEN name
    ELSE LET script_id == Head(scripts).id
             output == Head(scripts).output
             after_nbstat ==
                 IF Contains(script_id, s_nbstat) /\ output # <<>>
                 THEN nbstat_lines(split_sep(output, "\n"), name)
                 ELSE name
             after_smb ==
                 IF /\ ~Named(after_nbstat)
                    /\ Contains(script_id, s_smb_os_discovery)
                    /\ output # <<>>
                 THEN smb_os_discovery_lines(split_sep(output, "\n"), after_nbstat)
                 ELSE after_nbstat
         IN  IF Named(after_smb) THEN after_smb
             ELSE hostscript_loop(Tail(scripts), after_smb)

\* host_data["hostname"] when the record is created
host_data_hostname(h) ==
    LET name == hostname_from_hostnames(h)
    IN  IF ~Named(name) /\ "hostscript" \in DOMAIN h
        THEN hostscript_loop(h.hostscript, name)
        ELSE name

\* lines 110-114
mac_address(h) ==
    IF "addresses" \in DOMAIN h /\ "mac" \in DOMAIN h.addresses
    THEN Some(h.addresses.mac)
    ELSE None

\* lines 112, 116-118: the first value of the vendor dict
mac_vendor(h) ==
    IF /\ "addresses" \in DOMAIN h
       /\ "vendor" \in DOMAIN h /\ DOMAIN h.vendor # {}
    THEN Some(h.vendor[CHOOSE m \in DOMAIN h.vendor : TRUE])
    ELSE None

\* PortScannerHostDict.all_protocols(): the sorted protocol keys
all_protocols(h) ==
    SelectSeq(<<"ip", "sctp", "tcp", "udp">>, LAMBDA proto : proto \in DOMAIN h)

\* lines 133-145 for one protocol: every listed port, whatever its state
port_data(h, proto) ==
    LET ports == SortedSeq(DOMAIN h[proto])
    IN  [ i \in 1..Len(ports) |->
            [ port |-> ports[i], protocol |-> proto,
              state |-> IF "state" \in DOMAIN h[proto][ports[i]]
                        THEN h[proto][ports[i]].state ELSE "unknown" ] ]

RECURSIVE host_data_ports(_, _)
host_data_ports(h, protos) ==
    IF protos = <<>> THEN <<>>
    ELSE port_data(h, Head(protos)) \o host_data_ports(h, Tail(protos))

\* the dict appended to the returned list (os_detection and services, which
\* nothing here reads, are left out)
host_data(host, h) ==
    [ host |-> host,
      hostname |-> host_data_hostname(h),
      state |-> h.status.state,
      ports |-> host_data_ports(h, all_protocols(h)),
      mac_address |-> mac_address(h),
      mac_vendor |-> mac_vendor(h) ]

\* ScanResult(...) of lines 199-208, with the columns of the model
ScanResult(scan_id, data) ==
    [ scan_id |-> scan_id, host |-> data.host, hostname |-> data.hostname,
      state |-> data.state, ports |-> data.ports ]


\* --------------------------------------------------- POST /  create_scan
\* (a variant testing `is not None` instead of truthiness)
nmap_args_not_none(req) ==
    IF req.nmap_arguments # None
    THEN Some(TheValue(req.nmap_arguments))
    ELSE IF req.scan_type \in DOMAIN get_scan_templates
         THEN Some(get_scan_templates[req.scan_type])
         ELSE None

\* the arguments the scan is run with; Some(arguments) or None for the 400
nmap_args(req) ==
    IF Truthy(req.nmap_arguments)
    THEN Some(TheValue(req.nmap_arguments))
    ELSE IF req.scan_type \in DOMAIN get_scan_templates
         THEN Some(get_scan_templates[req.scan_type])
         ELSE None

\* commit of the new row, refresh, and background_tasks.add_task
create_scan(req) ==
    /\ looping = 0
    /\ IF nmap_args(req) = None
       THEN /\ response' = HTTP("create_scan", 400)
            /\ UNCHANGED << scans, next_id, task >>
       ELSE /\ next_id \in DOMAIN task
            /\ scans' = (next_id :> Scan(req)) @@ scans
            /\ task' = [task EXCEPT ![next_id] =
                          [NoTask EXCEPT !.pc = "scheduled",
                                         !.target = req.target,
                                         !.arguments = TheValue(nmap_args(req))]]
            /\ next_id' = next_id + 1
            /\ response' = HTTP("create_scan", 200)
    /\ UNCHANGED << scan_results, scan_logs, now, active_scans, nm, looping,
                    cancel_req >>
    /\ UNCHANGED template_vars

\* ------------------------------------------- run_scan_background wrapper
\* (a variant without the try/except)
run_scan_background_bare(outcome) ==
    IF outcome = "raised" THEN "propagated" ELSE "finished"

\* what leaves the background task, given how execute_scan ended
run_scan_background(outcome) ==
    IF outcome = "raised" THEN "swallowed" ELSE "finished"

\* (a variant without the finally clause)
Finish_no_pop(s, outcome, n) ==
    /\ task' = [task EXCEPT ![s].pc = "done",
                            ![s].outcome = outcome,
                            ![s].hosts_scanned = n,
                            ![s].pending = <<>>,
                            ![s].results = <<>>,
                            ![s].background = run_scan_background(outcome)]
    /\ active_scans' = active_scans

\* execute_scan ends: the finally clause pops the flag, the wrapper decides
Finish(s, outcome, n) ==
    /\ task' = [task EXCEPT ![s].pc = "done",
                            ![s].outcome = outcome,
                            ![s].hosts_scanned = n,
                            ![s].pending = <<>>,
                            ![s].results = <<>>,
                            ![s].background = run_scan_background(outcome)]
    /\ active_scans' = Restrict(active_scans, DOMAIN active_scans \ {s})

\* an exception inside the try block: control moves to the except clause
Raise(s, exc, pending) ==
    task' = [task EXCEPT ![s].pc = "except", ![s].exc = exc,
                         ![s].pending = pending, ![s].todo = <<>>]

\* ------------------------------------------------ execute_scan, try block
\* (a variant in which a finished task is started again)
execute_scan_begin_again(s) ==
    /\ looping = 0
    /\ task[s].pc \in {"scheduled", "done"}
    /\ active_scans' = (s :> TRUE) @@ active_scans
    /\ task' = [task EXCEPT ![s].pc = "set_running"]
    /\ UNCHANGED << scans, scan_results, scan_logs, now, next_id, nm, looping,
                    cancel_req, response >>
    /\ UNCHANGED template_vars

\* line 41 and the UPDATE of line 45 being sent
execute_scan_begin(s) ==
    /\ looping = 0
    /\ task[s].pc = "scheduled"
    /\ active_scans' = (s :> TRUE) @@ active_scans
    /\ task' = [task EXCEPT ![s].pc = "set_running"]
    /\ UNCHANGED << scans, scan_results, scan_logs, now, next_id, nm, looping,
                    cancel_req, response >>
    /\ UNCHANGED template_vars

\* the commit of status = running
execute_scan_running(s) ==
    /\ looping = 0
    /\ task[s].pc = "set_running"
    /\ scans' = update_scan_status(scans, s,
                    [status |-> "running", started_at |-> Some("utcnow")])
    /\ task' = [task EXCEPT ![s].pc = "log_start"]
    /\ UNCHANGED << scan_results, scan_logs, now, next_id, active_scans, nm,
                    looping, cancel_req, response >>
    /\ UNCHANGED template_vars

\* the start log; on success the nmap call is handed to the thread pool
execute_scan_log_start(s) ==
    /\ looping = 0
    /\ task[s].pc = "log_start"
    /\ IF ForeignKeyOk(scans, s)
       THEN /\ scan_logs' = add_log(scan_logs, s, "info",
                                <<"Starting scan on target: ", task[s].target>>, now)
            /\ now' = now + 1
            /\ task' = [task EXCEPT ![s].pc = "nmap"]
       ELSE /\ Raise(s, "IntegrityError", <<>>)
            /\ UNCHANGED << scan_logs, now >>
    /\ UNCHANGED << scans, scan_results, next_id, active_scans, nm, looping,
                    cancel_req, response >>
    /\ UNCHANGED template_vars

\* the executor thread: self.nm.scan(target, arguments) returns
nmap_scan_returns(s) ==
    /\ task[s].pc = "nmap"
    /\ nm' = PortScannerResult(task[s].target, task[s].arguments)
    /\ task' = [task EXCEPT ![s].pc = "nmap_done"]
    /\ UNCHANGED << scans, scan_results, scan_logs, now, next_id,
                    active_scans, looping, cancel_req, response >>
    /\ UNCHANGED template_vars

\* self.nm.scan raises in the executor thread, which leaves the shared
\* result as it was; the coroutine resumes with that exception
nmap_scan_raises(s) ==
    /\ looping = 0
    /\ task[s].pc = "nmap"
    /\ Raise(s, "PortScannerError", <<>>)
    /\ UNCHANGED << scans, scan_results, scan_logs, now, next_id,
                    active_scans, nm, looping, cancel_req, response >>
    /\ UNCHANGED template_vars

\* _process_scan_results starts: for host in nm.all_hosts()
process_scan_results_begin(s) ==
    /\ looping = 0
    /\ task[s].pc = "nmap_done"
    /\ task' = [task EXCEPT ![s].pc = "loop", ![s].hosts = all_hosts(nm),
                            ![s].todo = all_hosts(nm), ![s].results = <<>>]
    /\ looping' = s
    /\ UNCHANGED << scans, scan_results, scan_logs, now, next_id,
                    active_scans, nm, cancel_req, response >>
    /\ UNCHANGED template_vars

\* one iteration: nm[host] is read from the shared result as it is now;
\* db.add leaves the record pending in the task's session
process_scan_results_host(s) ==
    /\ looping = s
    /\ task[s].pc = "loop"
    /\ task[s].todo # <<>>
    /\ LET host == Head(task[s].todo) IN
       IF host \in DOMAIN nm.scan
       THEN /\ task' = [task EXCEPT
                          ![s].todo = Tail(@),
                          ![s].pending =
                              Append(@, ScanResult(s, host_data(host, nm.scan[host]))),
                          ![s].results = Append(@, host_data(host, nm.scan[host]))]
            /\ UNCHANGED looping
       ELSE /\ Raise(s, "KeyError", task[s].pending)
            /\ looping' = 0
    /\ UNCHANGED << scans, scan_results, scan_logs, now, next_id,
                    active_scans, nm, cancel_req, response >>
    /\ UNCHANGED template_vars

\* await db.commit() of line 213: the pending records are flushed in one
\* transaction; the foreign key fails it as a whole, and the rollback
\* expunges the pending records
process_scan_results_commit(s) ==
    /\ looping = s
    /\ task[s].pc = "loop"
    /\ task[s].todo = <<>>
    /\ looping' = 0
    /\ IF task[s].pending = <<>> \/ ForeignKeyOk(scans, s)
       THEN /\ scan_results' = scan_results \o task[s].pending
            /\ task' = [task EXCEPT ![s].pc = "set_completed",
                                    ![s].pending = <<>>]
       ELSE /\ Raise(s, "IntegrityError", <<>>)
            /\ UNCHANGED scan_results
    /\ UNCHANGED << scans, scan_logs, now, next_id, active_scans, nm,
                    cancel_req, response >>
    /\ UNCHANGED template_vars

\* the commit of status = completed
execute_scan_completed(s) ==
    /\ looping = 0
    /\ task[s].pc = "set_completed"
    /\ scans' = update_scan_status(scans, s,
                    [status |-> "completed", progress |-> 100,
                     completed_at |-> Some("utcnow")])
    /\ task' = [task EXCEPT ![s].pc = "log_success"]
    /\ UNCHANGED << scan_results, scan_logs, now, next_id, active_scans, nm,
                    looping, cancel_req, response >>
    /\ UNCHANGED template_vars

\* the success log and the return of lines 69-73
execute_scan_log_success(s) ==
    /\ looping = 0
    /\ task[s].pc = "log_success"
    /\ IF ForeignKeyOk(scans, s)
       THEN /\ scan_logs' = add_log(scan_logs, s, "success",
                                <<"Scan completed successfully">>, now)
            /\ now' = now + 1
            /\ Finish(s, "returned", Len(task[s].results))
       ELSE /\ Raise(s, "IntegrityError", <<>>)
            /\ UNCHANGED << scan_logs, now, active_scans >>
    /\ UNCHANGED << scans, scan_results, next_id, nm, looping, cancel_req,
                    response >>
    /\ UNCHANGED template_vars

\* ---------------------------------------------- execute_scan, except block
\* (a variant whose handler only logs: no status update)
execute_scan_failed_no_update(s) ==
    /\ looping = 0
    /\ task[s].pc = "except"
    /\ IF task[s].pending = <<>> \/ ForeignKeyOk(scans, s)
       THEN /\ scan_results' = scan_results \o task[s].pending
            /\ task' = [task EXCEPT ![s].pc = "log_error", ![s].pending = <<>>]
            /\ UNCHANGED << scans, active_scans >>
       ELSE /\ Finish(s, "raised", 0)
            /\ UNCHANGED << scans, scan_results >>
    /\ UNCHANGED << scan_logs, now, next_id, nm, looping, cancel_req,
                    response >>
    /\ UNCHANGED template_vars

\* _update_scan_status(failed): its commit flushes what the session still
\* holds pending; a failing flush raises out of the handler
execute_scan_failed(s) ==
    /\ looping = 0
    /\ task[s].pc = "except"
    /\ IF task[s].pending = <<>> \/ ForeignKeyOk(scans, s)
       THEN /\ scan_results' = scan_results \o task[s].pending
            /\ scans' = update_scan_status(scans, s,
                            [status |-> "failed",
                             error_message |-> Some(<<"Scan failed: ", task[s].exc>>),
                             completed_at |-> Some("utcnow")])
            /\ task' = [task EXCEPT ![s].pc = "log_error", ![s].pending = <<>>]
            /\ UNCHANGED active_scans
       ELSE /\ Finish(s, "raised", 0)
            /\ UNCHANGED << scans, scan_results >>
    /\ UNCHANGED << scan_logs, now, next_id, nm, looping, cancel_req,
                    response >>
    /\ UNCHANGED template_vars

\* the error log, then `raise`
execute_scan_log_error(s) ==
    /\ looping = 0
    /\ task[s].pc = "log_error"
    /\ IF ForeignKeyOk(scans, s)
       THEN /\ scan_logs' = add_log(scan_logs, s, "error",
                                <<"Scan failed: ", task[s].exc>>, now)
            /\ now' = now + 1
       ELSE UNCHANGED << scan_logs, now >>
    /\ Finish(s, "raised", 0)
    /\ UNCHANGED << scans, scan_results, next_id, nm, looping, cancel_req,
                    response >>
    /\ UNCHANGED template_vars

\* ------------------------------------------- POST /{scan_id}/cancel
\* NmapScanner.cancel_scan: the value returned
scanner_cancel_scan_returns(flags, scan_id) ==
    IF scan_id \in DOMAIN flags THEN TRUE ELSE FALSE

\* NmapScanner.cancel_scan: the new dict
scanner_cancel_scan(flags, scan_id) ==
    IF scan_id \in DOMAIN flags THEN [flags EXCEPT ![scan_id] = FALSE] ELSE flags

\* the SELECT of line 276
cancel_scan_select(r, s) ==
    /\ looping = 0
    /\ s < next_id
    /\ cancel_req[r] = IdleCancel
    /\ cancel_req' = [cancel_req EXCEPT ![r] =
                        [ id |-> s,
                          seen |-> IF Exists(s) THEN scans[s].status ELSE "missing" ]]
    /\ UNCHANGED << scans, scan_results, scan_logs, now, next_id,
                    active_scans, nm, task, looping, response >>
    /\ UNCHANGED template_vars

\* (a variant that clears the flag before it looks at the row)
cancel_scan_flag_first(r) ==
    /\ looping = 0
    /\ cancel_req[r] # IdleCancel
    /\ LET s == cancel_req[r].id
           seen == cancel_req[r].seen
       IN  /\ active_scans' = scanner_cancel_scan(active_scans, s)
           /\ IF seen = "missing"
              THEN /\ response' = HTTP("cancel_scan", 404)
                   /\ UNCHANGED scans
              ELSE IF seen # "running"
              THEN /\ response' = HTTP("cancel_scan", 400)
                   /\ UNCHANGED scans
              ELSE /\ scans' = update_scan_status(scans, s, [status |-> "cancelled"])
                   /\ response' = HTTP("cancel_scan", IF Exists(s) THEN 200 ELSE 500)
    /\ cancel_req' = [cancel_req EXCEPT ![r] = IdleCancel]
    /\ UNCHANGED << scan_results, scan_logs, now, next_id, nm, task, looping >>
    /\ UNCHANGED template_vars

\* lines 279-290 on the row as it was read; the UPDATE of a row deleted in
\* between matches nothing and the request fails
cancel_scan(r) ==
    /\ looping = 0
    /\ cancel_req[r] # IdleCancel
    /\ LET s == cancel_req[r].id
           seen == cancel_req[r].seen
       IN  IF seen = "missing"
           THEN /\ response' = HTTP("cancel_scan", 404)
                /\ UNCHANGED << scans, active_scans >>
           ELSE IF seen # "running"
           THEN /\ response' = HTTP("cancel_scan", 400)
                /\ UNCHANGED << scans, active_scans >>
           ELSE /\ active_scans' = scanner_cancel_scan(active_scans, s)
                /\ scans' = update_scan_status(scans, s, [status |-> "cancelled"])
                /\ response' = HTTP("cancel_scan", IF Exists(s) THEN 200 ELSE 500)
    /\ cancel_req' = [cancel_req EXCEPT ![r] = IdleCancel]
    /\ UNCHANGED << scan_results, scan_logs, now, next_id, nm, task, looping >>
    /\ UNCHANGED template_vars

\* ------------------------------------------- DELETE /{scan_id}
\* the row goes, and with it (cascade) its results and logs
delete_scan(s) ==
    /\ looping = 0
    /\ s < next_id
    /\ IF Exists(s)
       THEN /\ scans' = Restrict(scans, DOMAIN scans \ {s})
            /\ scan_results' = SelectSeq(scan_results, LAMBDA r : r.scan_id # s)
            /\ scan_logs' = SelectSeq(scan_logs, LAMBDA r : r.scan_id # s)
            /\ response' = HTTP("delete_scan", 200)
       ELSE /\ response' = HTTP("delete_scan", 404)
            /\ UNCHANGED << scans, scan_results, scan_logs >>
    /\ UNCHANGED << now, next_id, active_scans, nm, task, looping, cancel_req >>
    /\ UNCHANGED template_vars

\* ------------------------------------------- /api/templates
lifecycle_vars == << scans, scan_results, scan_logs, now, next_id,
                     active_scans, nm, task, looping, cancel_req >>

\* ScanTemplate(**template_data.model_dump())
ScanTemplate(name) == [ name |-> name, scan_type |-> "custom" ]

\* SELECT ... WHERE name = <name>: is there such a row
NameExists(tbl, name) == \E t \in DOMAIN tbl : tbl[t].name = name

\* unique=True on scan_templates.name: would row <id> with this name clash
UniqueViolation(tbl, id, name) ==
    \E t \in DOMAIN tbl \ {id} : tbl[t].name = name

CreatesInFlight ==
    Cardinality({ r \in TemplateSlots : template_req[r].op = "create" })

\* POST /: the SELECT by name and the check on it
create_template_select(r, name) ==
    /\ template_req[r] = IdleTemplateReq
    /\ IF NameExists(scan_templates, name)
       THEN /\ response' = HTTP("create_template", 400)
            /\ UNCHANGED template_req
       ELSE /\ next_template_id + CreatesInFlight <= MaxTemplates
            /\ template_req' = [template_req EXCEPT ![r] =
                                  TemplateReq("create", 0, Some(name), None)]
            /\ UNCHANGED response
    /\ UNCHANGED << scan_templates, next_template_id, lifecycle_vars >>

\* POST /: db.add, commit and refresh; the INSERT fails on the constraint
create_template_commit(r) ==
    /\ template_req[r].op = "create"
    /\ LET name == TheValue(template_req[r].name) IN
       IF UniqueViolation(scan_templates, 0, name)
       THEN /\ response' = HTTP("create_template", 500)
            /\ UNCHANGED << scan_templates, next_template_id >>
       ELSE /\ scan_templates' =
                   (next_template_id :> ScanTemplate(name)) @@ scan_templates
            /\ next_template_id' = next_template_id + 1
            /\ response' = HTTP("create_template", 201)
    /\ template_req' = [template_req EXCEPT ![r] = IdleTemplateReq]
    /\ UNCHANGED lifecycle_vars

\* PUT /{template_id}: the SELECT by id; name is Some(new name) or None
update_template_select(r, id, name) ==
    /\ template_req[r] = IdleTemplateReq
    /\ id < next_template_id
    /\ IF id \notin DOMAIN scan_templates
       THEN /\ response' = HTTP("update_template", 404)
            /\ UNCHANGED template_req
       ELSE /\ template_req' = [template_req EXCEPT ![r] =
                  TemplateReq(IF Truthy(name) /\ TheValue(name) # scan_templates[id].name
                              THEN "update_check" ELSE "update",
                              id, name, Some(scan_templates[id].name))]
            /\ UNCHANGED response
    /\ UNCHANGED << scan_templates, next_template_id, lifecycle_vars >>

\* PUT /{template_id}: the SELECT by the new name and the check on it
update_template_check(r) ==
    /\ template_req[r].op = "update_check"
    /\ IF NameExists(scan_templates, TheValue(template_req[r].name))
       THEN /\ response' = HTTP("update_template", 400)
            /\ template_req' = [template_req EXCEPT ![r] = IdleTemplateReq]
       ELSE /\ template_req' = [template_req EXCEPT ![r].op = "update"]
            /\ UNCHANGED response
    /\ UNCHANGED << scan_templates, next_template_id, lifecycle_vars >>

\* PUT /{template_id}: setattr, commit and refresh. Only an attribute whose
\* value differs from the loaded one is written; the UPDATE of a row that is
\* gone, or the refresh of it, fails, and so does a name that clashes
update_template_commit(r) ==
    /\ template_req[r].op = "update"
    /\ LET id == template_req[r].id
           name == template_req[r].name
           changed == name # None /\ name # template_req[r].loaded
       IN  IF id \notin DOMAIN scan_templates
           THEN /\ response' = HTTP("update_template", 500)
                /\ UNCHANGED scan_templates
           ELSE IF changed /\ UniqueViolation(scan_templates, id, TheValue(name))
           THEN /\ response' = HTTP("update_template", 500)
                /\ UNCHANGED scan_templates
           ELSE /\ scan_templates' =
                       IF changed
                       THEN [scan_templates EXCEPT ![id].name = TheValue(name)]
                       ELSE scan_templates
                /\ response' = HTTP("update_template", 200)
    /\ template_req' = [template_req EXCEPT ![r] = IdleTemplateReq]
    /\ UNCHANGED << next_template_id, lifecycle_vars >>

\* DELETE /{template_id}: the SELECT by id
delete_template_select(r, id) ==
    /\ template_req[r] = IdleTemplateReq
    /\ id < next_template_id
    /\ IF id \notin DOMAIN scan_templates
       THEN /\ response' = HTTP("delete_template", 404)
            /\ UNCHANGED template_req
       ELSE /\ template_req' = [template_req EXCEPT ![r] =
                                  TemplateReq("delete", id, None, None)]
            /\ UNCHANGED response
    /\ UNCHANGED << scan_templates, next_template_id, lifecycle_vars >>

\* DELETE /{template_id}: db.delete and commit; a DELETE that matches no
\* row any more is not an error
delete_template_commit(r) ==
    /\ template_req[r].op = "delete"
    /\ scan_templates' =
           Restrict(scan_templates, DOMAIN scan_templates \ {template_req[r].id})
    /\ response' = HTTP("delete_template", 200)
    /\ template_req' = [template_req EXCEPT ![r] = IdleTemplateReq]
    /\ UNCHANGED << next_template_id, lifecycle_vars >>

\* ------------------------------------------- read endpoints
\* GET /{scan_id}/results
get_scan_results(scan_id) == WhereScanId(scan_results, scan_id)

\* ScanResultResponse built from a stored record (from_attributes): every
\* field of the schema is required, and one the record has no attribute
\* for fails the validation of the response
ScanResultResponse(row) ==
    IF {"mac_address", "mac_vendor"} \subseteq DOMAIN row
    THEN [ scan_id |-> row.scan_id, host |-> row.host,
           hostname |-> row.hostname, state |-> row.state,
           ports |-> row.ports, mac_address |-> row.mac_address,
           mac_vendor |-> row.mac_vendor ]
    ELSE [ error |-> "ResponseValidationError" ]

\* GET /{scan_id}/results as the client sees it
get_scan_results_response(scan_id) ==
    LET rows == get_scan_results(scan_id)
        body == [ i \in 1..Len(rows) |-> ScanResultResponse(rows[i]) ]
    IN  IF \E i \in 1..Len(body) : "error" \in DOMAIN body[i]
        THEN [ code |-> 500 ]
        ELSE [ code |-> 200, body |-> body ]

\* (a variant ordering as list_scans does, newest first)
get_scan_logs_desc(scan_id) ==
    SortSeq(WhereScanId(scan_logs, scan_id),
            LAMBDA a, b : a.created_at > b.created_at)

\* GET /{scan_id}/logs: WHERE scan_id = ... ORDER BY created_at
get_scan_logs(scan_id) ==
    SortSeq(WhereScanId(scan_logs, scan_id),
            LAMBDA a, b : a.created_at < b.created_at)

\* ------------------------------------------- GET /api/reports/{scan_id}/json
\* sum(1 for r in results if r.state == state)
RECURSIVE count_state(_, _)
count_state(results, state) ==
    IF results = <<>> THEN 0
    ELSE (IF Head(results).state = state THEN 1 ELSE 0)
            + count_state(Tail(results), state)

\* sum(len(r.ports) for r in results if r.ports)
RECURSIVE sum_len_ports(_)
sum_len_ports(results) ==
    IF results = <<>> THEN 0
    ELSE (IF Head(results).ports # <<>> THEN Len(Head(results).ports) ELSE 0)
            + sum_len_ports(Tail(results))

\* the status code and the "summary" of the report
get_json_report(scan_id) ==
    IF ~Exists(scan_id)
    THEN [ code |-> 404 ]
    ELSE LET results == WhereScanId(scan_results, scan_id)
         IN  [ code |-> 200,
               summary |->
                 [ total_hosts |-> Len(results),
                   hosts_up |-> count_state(results, "up"),
                   hosts_down |-> count_state(results, "down"),
                   total_open_ports |-> sum_len_ports(results) ] ]

\* ------------------------------------------- specification
\* the scan lifecycle: requests, background tasks, cancels and deletes
Next ==
    \/ \E req \in Requests : create_scan(req)
    \/ \E s \in ScanIds :
          \/ execute_scan_begin(s)
          \/ execute_scan_running(s)
          \/ execute_scan_log_start(s)
          \/ nmap_scan_returns(s)
          \/ nmap_scan_raises(s)
          \/ process_scan_results_begin(s)
          \/ process_scan_results_host(s)
          \/ process_scan_results_commit(s)
          \/ execute_scan_completed(s)
          \/ execute_scan_log_success(s)
          \/ execute_scan_failed(s)
          \/ execute_scan_log_error(s)
    \/ \E s \in RequestIds : delete_scan(s)
    \/ \E r \in CancelSlots, s \in RequestIds : cancel_scan_select(r, s)
    \/ \E r \in CancelSlots : cancel_scan(r)

Spec == Init /\ [][Next]_vars

\* the steps of a scan's coroutine, which the event loop runs when ready
task_step(s) ==
    \/ execute_scan_begin(s)
    \/ execute_scan_running(s)
    \/ execute_scan_log_start(s)
    \/ process_scan_results_begin(s)
    \/ process_scan_results_host(s)
    \/ process_scan_results_commit(s)
    \/ execute_scan_completed(s)
    \/ execute_scan_log_success(s)
    \/ execute_scan_failed(s)
    \/ execute_scan_log_error(s)

\* the executor thread's call of nmap, which returns or raises
nmap_thread(s) == nmap_scan_returns(s) \/ nmap_scan_raises(s)

\* the lifecycle with the cancel and delete requests aimed at the first
\* scan, the other scan running beside it
NextFair ==
    \/ \E req \in {Request("r1"), Request("r2")} : create_scan(req)
    \/ \E s \in ScanIds :
          \/ execute_scan_begin(s)
          \/ execute_scan_running(s)
          \/ execute_scan_log_start(s)
          \/ nmap_scan_returns(s)
          \/ nmap_scan_raises(s)
          \/ process_scan_results_begin(s)
          \/ process_scan_results_host(s)
          \/ process_scan_results_commit(s)
          \/ execute_scan_completed(s)
          \/ execute_scan_log_success(s)
          \/ execute_scan_failed(s)
          \/ execute_scan_log_error(s)
    \/ delete_scan(1)
    \/ \E r \in CancelSlots : cancel_scan_select(r, 1)
    \/ \E r \in CancelSlots : cancel_scan(r)

\* ... and its scheduling: the event loop resumes every ready coroutine, a
\* database await completes, and nmap returns or raises
SpecFair ==
    /\ Init /\ [][NextFair]_vars
    /\ \A s \in ScanIds : WF_vars(task_step(s)) /\ WF_vars(nmap_thread(s))

\* create_scan over every kind of request, and the tasks it schedules as
\* far as their call of nmap
NextCreate ==
    \/ \E req \in AllRequests : create_scan(req)
    \/ \E s \in ScanIds :
          \/ execute_scan_begin(s)
          \/ execute_scan_running(s)
          \/ execute_scan_log_start(s)
          \/ nmap_scan_returns(s)
          \/ nmap_scan_raises(s)

SpecCreate == Init /\ [][NextCreate]_vars

\* the result processing on its own: one scan whose nmap call has just
\* returned, with any of the host reports in the shared PortScanner
InitProcess ==
    /\ scans = (1 :> [Scan(Request("r1")) EXCEPT
                        !.status = "running", !.started_at = Some("utcnow")])
    /\ scan_results = <<>>
    /\ scan_logs = add_log(<<>>, 1, "info",
                           <<"Starting scan on target: ", "netA">>, 1)
    /\ now = 2
    /\ next_id = 2
    /\ active_scans = (1 :> TRUE)
    /\ nm \in { [ scan |-> (1 :> h),
                  command_line |-> <<"netA", get_scan_templates.quick>> ] :
                h \in HostInputs }
    /\ task = [s \in ScanIds |->
                 IF s = 1
                 THEN [NoTask EXCEPT !.pc = "nmap_done", !.target = "netA",
                                     !.arguments = get_scan_templates.quick]
                 ELSE NoTask]
    /\ looping = 0
    /\ cancel_req = [r \in CancelSlots |-> IdleCancel]
    /\ response = HTTP("create_scan", 200)
    /\ InitTemplates

NextProcess ==
    \E s \in ScanIds :
        \/ process_scan_results_begin(s)
        \/ process_scan_results_host(s)
        \/ process_scan_results_commit(s)
        \/ execute_scan_completed(s)
        \/ execute_scan_log_success(s)

SpecProcess == InitProcess /\ [][NextProcess]_vars

\* the template endpoints, their requests interleaving at every await
NextTemplates ==
    \/ \E r \in TemplateSlots, name \in TemplateNames :
          create_template_select(r, name)
    \/ \E r \in TemplateSlots : create_template_commit(r)
    \/ \E r \in TemplateSlots, id \in TemplateRequestIds,
          name \in {None} \cup {Some(n) : n \in TemplateNames} :
          update_template_select(r, id, name)
    \/ \E r \in TemplateSlots : update_template_check(r)
    \/ \E r \in TemplateSlots : update_template_commit(r)
    \/ \E r \in TemplateSlots, id \in TemplateRequestIds :
          delete_template_select(r, id)
    \/ \E r \in TemplateSlots : delete_template_commit(r)

SpecTemplates == Init /\ [][NextTemplates]_vars

\* a burst of create requests, and the start of the tasks they schedule
InitBurst ==
    /\ scans = [i \in {} |-> 0]
    /\ scan_results = <<>>
    /\ scan_logs = <<>>
    /\ now = 1
    /\ next_id = 1
    /\ active_scans = [i \in {} |-> TRUE]
    /\ nm = EmptyScanResult
    /\ task = [s \in BurstIds |-> NoTask]
    /\ looping = 0
    /\ cancel_req = [r \in CancelSlots |-> IdleCancel]
    /\ response = HTTP("none", 0)
    /\ InitTemplates

NextBurst ==
    \/ create_scan(Request("r1"))
    \/ \E s \in BurstIds :
          \/ execute_scan_begin(s)
          \/ execute_scan_running(s)

SpecBurst == InitBurst /\ [][NextBurst]_vars

TypeOK ==
    /\ DOMAIN scans \subseteq ScanIds
    /\ next_id \in 1..(MaxScans + 1)
    /\ looping \in {0} \cup ScanIds

\* ------------------------------------------------------------- properties
IsPrefix(a, b) == Len(a) <= Len(b) /\ SubSeq(b, 1, Len(a)) = a

HostsOf(rows) == [i \in 1..Len(rows) |-> rows[i].host]

HasLog(tbl, scan_id, level) ==
    \E i \in 1..Len(tbl) : tbl[i].scan_id = scan_id /\ tbl[i].level = level

\* C1: the status of every stored scan is pending, running, completed,
\* failed or cancelled; a row appears with status pending; a row's status
\* turns running only from pending, and by the commit of its own task's
\* first status update.
C1_StatusLifecycle ==
    /\ [](\A s \in DOMAIN scans : scans[s].status \in Statuses)
    /\ [][\A s \in ScanIds :
            /\ (s \notin DOMAIN scans /\ s \in DOMAIN scans')
                  => scans'[s].status = "pending"
            /\ (s \in DOMAIN scans /\ s \in DOMAIN scans'
                  /\ scans[s].status # "running" /\ scans'[s].status = "running")
                  => /\ scans[s].status = "pending"
                     /\ task[s].pc = "set_running"
                     /\ task'[s].pc = "log_start"]_vars

C1_Witness ==
    \E s \in DOMAIN scans :
        scans[s].status = "running" /\ task[s].pc = "log_start"

\* C2: when execute_scan returns normally the scan is stored with status
\* completed, progress 100 and completed_at set, it has a success log, its
\* stored results are one per host of nm.all_hosts(), and hosts_scanned is
\* that number of hosts.
C2_ReturnedMeansCompleted ==
    [][\A s \in ScanIds :
         (task[s].outcome = "none" /\ task'[s].outcome = "returned")
            => /\ s \in DOMAIN scans'
               /\ scans'[s].status = "completed"
               /\ scans'[s].progress = 100
               /\ scans'[s].completed_at # None
               /\ HasLog(scan_logs', s, "success")
               /\ HostsOf(WhereScanId(scan_results', s)) = task[s].hosts
               /\ task'[s].hosts_scanned = Len(task[s].hosts)]_vars

\* C3 as written: however execute_scan comes to raise, an error log entry
\* for the scan is appended on the way out.
C3_ErrorLogAlways ==
    [][\A s \in ScanIds :
         (task[s].outcome = "none" /\ task'[s].outcome = "raised")
            => /\ Len(scan_logs') = Len(scan_logs) + 1
               /\ scan_logs'[Len(scan_logs')].scan_id = s
               /\ scan_logs'[Len(scan_logs')].level = "error"]_vars

\* C3, amended: once a step of the try block has raised, if the scan row is
\* still stored when the handler runs, the handler's update sets status
\* failed, error_message "Scan failed: <exception text>" and completed_at,
\* and its log step appends an error entry with that message before the
\* exception is re-raised; if the row has been deleted nothing is stored;
\* in every case execute_scan ends raised and run_scan_background swallows
\* the exception.
C3_FailurePath ==
    /\ [](\A s \in ScanIds :
            /\ task[s].background # "propagated"
            /\ task[s].outcome = "raised" => task[s].background = "swallowed")
    /\ [][\A s \in ScanIds :
            /\ (task[s].pc = "except" /\ task'[s].pc # "except" /\ s \in DOMAIN scans)
                  => /\ s \in DOMAIN scans'
                     /\ scans'[s].status = "failed"
                     /\ scans'[s].error_message = Some(<<"Scan failed: ", task[s].exc>>)
                     /\ scans'[s].completed_at # None
                     /\ task'[s].pc = "log_error"
            /\ (task[s].pc = "log_error" /\ task'[s].pc # "log_error")
                  => /\ task'[s].outcome = "raised"
                     /\ IF s \in DOMAIN scans
                        THEN scan_logs' = Append(scan_logs,
                                 [ scan_id |-> s, level |-> "error",
                                   message |-> <<"Scan failed: ", task[s].exc>>,
                                   created_at |-> now ])
                        ELSE scan_logs' = scan_logs
            /\ (task[s].pc \in {"except", "log_error"} /\ task'[s].pc # task[s].pc
                  /\ s \notin DOMAIN scans)
                  => UNCHANGED << scans, scan_results, scan_logs >>
            /\ (task[s].pc \in {"except", "log_error"})
                  => task'[s].outcome \in {"none", "raised"}]_vars

C3_Witness ==
    \E s \in DOMAIN scans :
        /\ task[s].outcome = "raised"
        /\ task[s].background = "swallowed"
        /\ scans[s].status = "failed"
        /\ HasLog(scan_logs, s, "error")

\* C4: a scan whose status is cancelled keeps that status for as long as
\* its row is stored.
C4_CancelledStays ==
    [][\A s \in ScanIds :
         (s \in DOMAIN scans /\ scans[s].status = "cancelled" /\ s \in DOMAIN scans')
            => scans'[s].status = "cancelled"]_vars

\* C5: while a scan's flag in active_scans is False, no result record is
\* stored for it and no success log is appended for it.
C5_CancelStopsScan ==
    [][\A s \in ScanIds :
         (s \in DOMAIN active_scans /\ active_scans[s] = FALSE)
            => /\ Len(WhereScanId(scan_results', s)) <= Len(WhereScanId(scan_results, s))
               /\ (HasLog(scan_logs', s, "success") => HasLog(scan_logs, s, "success"))]_vars

\* C6: a cancel request that read no row answers 404, and no row of that
\* id is stored when it answers; one that read a row whose status is not
\* running answers 400; a cancel answering 404 or 400 changes neither the
\* scans table nor active_scans.
C6_CancelRejected ==
    [][\A r \in CancelSlots :
         (cancel_req[r] # IdleCancel /\ cancel_req'[r] = IdleCancel)
            => /\ cancel_req[r].seen = "missing"
                    => /\ response' = HTTP("cancel_scan", 404)
                       /\ cancel_req[r].id \notin DOMAIN scans
               /\ cancel_req[r].seen \in Statuses \ {"running"}
                    => response' = HTTP("cancel_scan", 400)
               /\ response'.code \in {400, 404}
                    => scans' = scans /\ active_scans' = active_scans]_vars

C6_Witness ==
    /\ response = HTTP("cancel_scan", 400)
    /\ \E s \in DOMAIN active_scans :
          active_scans[s] = TRUE /\ s \in DOMAIN scans /\ scans[s].status = "pending"

\* C7: the stored results of a scan are none, or one per host of the
\* nm.all_hosts() its result processing iterated over.
C7_AllOrNothing ==
    \A s \in DOMAIN scans :
        \/ get_scan_results(s) = <<>>
        \/ HostsOf(get_scan_results(s)) = task[s].hosts

\* C8: while a scan stays stored, what get_scan_logs returns for it only
\* grows at the end, and it is the scan's entries in the order they were
\* inserted.
C8_LogsAppendOnly ==
    [][\A s \in ScanIds :
         (s \in DOMAIN scans /\ s \in DOMAIN scans')
            => /\ IsPrefix(get_scan_logs(s), get_scan_logs(s)')
               /\ get_scan_logs(s)' = WhereScanId(scan_logs', s)]_vars

C8_Witness ==
    \E s \in DOMAIN scans :
        /\ Len(get_scan_logs(s)) >= 2
        /\ Len(scan_logs) > Len(get_scan_logs(s))

\* C9: no result or log record references a scan that is not stored; a row
\* leaves the scans table only by a delete answering 200, which leaves the
\* other scans' records as they were; a delete answering 404 changes
\* nothing.
C9_DeleteCascades ==
    /\ [](/\ \A i \in 1..Len(scan_results) : scan_results[i].scan_id \in DOMAIN scans
          /\ \A i \in 1..Len(scan_logs) : scan_logs[i].scan_id \in DOMAIN scans)
    /\ [][/\ \A s \in ScanIds :
               (s \in DOMAIN scans /\ s \notin DOMAIN scans')
                  => /\ response' = HTTP("delete_scan", 200)
                     /\ \A o \in ScanIds \ {s} :
                           /\ WhereScanId(scan_results', o) = WhereScanId(scan_results, o)
                           /\ WhereScanId(scan_logs', o) = WhereScanId(scan_logs, o)
          /\ (response' = HTTP("delete_scan", 404) /\ response # response')
                  => UNCHANGED << scans, scan_results, scan_logs, now, next_id,
                                  active_scans, nm, task, looping, cancel_req >>]_vars

C9_Witness ==
    \E s \in 1..(next_id - 1) :
        /\ s \notin DOMAIN scans
        /\ response = HTTP("delete_scan", 404)
        /\ task[s].pc = "done"
        /\ task[s].exc = "IntegrityError"

\* what C10 expects of a request
GivenArguments(req) == req.nmap_arguments \notin {None, Some("")}

ExpectedArguments(req) ==
    IF GivenArguments(req) THEN TheValue(req.nmap_arguments)
    ELSE get_scan_templates[req.scan_type]

ExpectedRejected(req) ==
    ~GivenArguments(req) /\ req.scan_type \notin DOMAIN get_scan_templates

\* C10: a stored scan comes from a request that gave non-empty
\* nmap_arguments or named a built-in template; its task is scheduled with,
\* and nmap is run with, the given arguments if there are any and else the
\* template's; a create answering 400 stores no row and schedules no task.
C10_CreateArguments ==
    /\ [](\A s \in DOMAIN scans :
            /\ ~ExpectedRejected(Request(scans[s].name))
            /\ task[s].pc # "none"
            /\ task[s].arguments = ExpectedArguments(Request(scans[s].name)))
    /\ [][/\ \A s \in ScanIds :
               (task[s].pc = "nmap" /\ task'[s].pc = "nmap_done")
                  => nm'.command_line =
                        << Request(scans[s].name).target,
                           ExpectedArguments(Request(scans[s].name)) >>
          /\ (response' = HTTP("create_scan", 400) /\ response # response')
                  => UNCHANGED << scans, task, next_id >>]_vars

C10_Witness ==
    /\ response = HTTP("create_scan", 400)
    /\ \E s \in DOMAIN scans :
          /\ scans[s].name = "r3"
          /\ task[s].pc = "nmap_done"
    /\ \E s \in DOMAIN scans : scans[s].name = "r4"

\* the records the scan's own invocation nm.scan(target, arguments) gives
OwnScanResults(s) ==
    LET own == PortScannerResult(task[s].target, task[s].arguments)
        hosts == all_hosts(own)
    IN  [ i \in 1..Len(hosts) |->
            ScanResult(s, host_data(hosts[i], own.scan[hosts[i]])) ]

\* C11: once a scan's result processing has committed, the records stored
\* for the scan are those of the hosts that the nmap invocation with the
\* scan's own target and arguments found, one per host, also when another
\* scan runs through the shared PortScanner at the same time.
C11_OwnScanResults ==
    \A s \in DOMAIN scans :
        task[s].pc \in {"set_completed", "log_success"}
            => get_scan_results(s) = OwnScanResults(s)

\* how far a background task has come
PcRank(pc) ==
    CASE pc = "none" -> 0
      [] pc = "scheduled" -> 1
      [] pc = "set_running" -> 2
      [] pc = "log_start" -> 3
      [] pc = "nmap" -> 4
      [] pc = "nmap_done" -> 5
      [] pc = "loop" -> 6
      [] pc = "set_completed" -> 7
      [] pc = "log_success" -> 8
      [] pc = "except" -> 9
      [] pc = "log_error" -> 10
      [] pc = "done" -> 11

ScriptName(script) ==
    LET lines == split_sep(script.output, "\n")
        nb == IF Contains(script.id, s_nbstat) /\ script.output # <<>>
              THEN nbstat_lines(lines, None) ELSE None
    IN  IF Named(nb) THEN nb
        ELSE IF Contains(script.id, s_smb_os_discovery) /\ script.output # <<>>
        THEN smb_os_discovery_lines(lines, None)
        ELSE None

ExpectedHostname(h) ==
    LET listed == SelectSeq(h.hostnames, LAMBDA hn : hn.name # <<>>)
        scripts == IF "hostscript" \in DOMAIN h THEN h.hostscript ELSE <<>>
        yielding == SelectSeq(scripts, LAMBDA sc : Named(ScriptName(sc)))
    IN  IF hostname(h) # <<>> THEN Some(hostname(h))
        ELSE IF listed # <<>> THEN Some(listed[1].name)
        ELSE IF yielding # <<>> THEN ScriptName(yielding[1])
        ELSE None

\* C13: the hostname of a processed host is its primary hostname if that
\* is not empty, else the first non-empty name of its hostnames list, else
\* the name of the first host script, in order, that yields one (nbstat
\* output before smb-os-discovery output), else none; and the record
\* stored for the host carries the hostname returned for it.
C13_HostnamePriority ==
    \A s \in ScanIds :
        /\ \A i \in 1..Len(task[s].results) :
              task[s].results[i].host \in DOMAIN nm.scan
                 => task[s].results[i].hostname
                       = ExpectedHostname(nm.scan[task[s].results[i].host])
        /\ \A i \in 1..Len(task[s].pending) :
              task[s].pending[i].hostname = task[s].results[i].hostname
        /\ task[s].pc \in {"set_completed", "log_success"}
              => \A i \in 1..Len(get_scan_results(s)) :
                    get_scan_results(s)[i].hostname = task[s].results[i].hostname

\* (the same, with an empty name also counted as no hostname)
C13_HostnameOrEmpty ==
    \A s \in ScanIds :
        \A i \in 1..Len(task[s].results) :
            LET got == task[s].results[i].hostname
                expected == ExpectedHostname(nm.scan[task[s].results[i].host])
            IN  IF expected = None THEN ~Named(got) ELSE got = expected

\* a template request at its last step, and what it asks for
Finishing(r, op) == template_req[r].op = op /\ template_req'[r].op = "idle"

\* C14: no two stored templates have the same name; a create that ends
\* while its name is in use, and a rename that ends while another template
\* has the new name, answer 400, and leave the stored templates as they
\* were.
C14_UniqueNames ==
    /\ [](\A t, u \in DOMAIN scan_templates :
            t # u => scan_templates[t].name # scan_templates[u].name)
    /\ [][\A r \in TemplateSlots :
            /\ (Finishing(r, "create")
                  /\ NameExists(scan_templates, TheValue(template_req[r].name)))
                  => /\ response' = HTTP("create_template", 400)
                     /\ scan_templates' = scan_templates
            /\ (\/ Finishing(r, "update_check")
                \/ Finishing(r, "update") /\ template_req[r].name # None)
                  /\ UniqueViolation(scan_templates, template_req[r].id,
                                     TheValue(template_req[r].name))
                  => /\ response' = HTTP("update_template", 400)
                     /\ scan_templates' = scan_templates]_vars

\* (what does hold of the template names: they stay unique, a request whose
\* own SELECT finds the name answers 400, and a request that ends while the
\* name is taken changes no stored template)
C14_UniqueAndUnchanged ==
    /\ [](\A t, u \in DOMAIN scan_templates :
            t # u => scan_templates[t].name # scan_templates[u].name)
    /\ [][\A r \in TemplateSlots :
            /\ Finishing(r, "update_check")
                  => /\ response' = HTTP("update_template", 400)
                     /\ scan_templates' = scan_templates
            /\ (Finishing(r, "create")
                  /\ NameExists(scan_templates, TheValue(template_req[r].name)))
                  => /\ response' = HTTP("create_template", 500)
                     /\ scan_templates' = scan_templates
            /\ (Finishing(r, "update") /\ template_req[r].name # None
                  /\ UniqueViolation(scan_templates, template_req[r].id,
                                     TheValue(template_req[r].name)))
                  => scan_templates' = scan_templates]_vars

\* the open ports among the stored records of a scan
OpenPorts(scan_id) ==
    LET rows == get_scan_results(scan_id)
    IN  UNION { { <<i, j>> : j \in { k \in 1..Len(rows[i].ports) :
                                        rows[i].ports[k].state = "open" } } :
                i \in 1..Len(rows) }

HostsInState(scan_id, state) ==
    { i \in 1..Len(get_scan_results(scan_id)) :
        get_scan_results(scan_id)[i].state = state }

\* C15: the JSON report of a stored scan counts its result records as
\* total_hosts, those with state up and down as hosts_up and hosts_down,
\* and the open ports of all its hosts as total_open_ports; for an id that
\* is not stored the report answers 404.
C15_ReportSummary ==
    \A id \in RequestIds :
        IF id \notin DOMAIN scans THEN get_json_report(id).code = 404
        ELSE /\ get_json_report(id).code = 200
             /\ get_json_report(id).summary.total_hosts
                   = Len(get_scan_results(id))
             /\ get_json_report(id).summary.hosts_up
                   = Cardinality(HostsInState(id, "up"))
             /\ get_json_report(id).summary.hosts_down
                   = Cardinality(HostsInState(id, "down"))
             /\ get_json_report(id).summary.total_open_ports
                   = Cardinality(OpenPorts(id))

\* (the same without the ports: the host counts and the 404)
C15_HostCounts ==
    \A id \in RequestIds :
        IF id \notin DOMAIN scans THEN get_json_report(id).code = 404
        ELSE /\ get_json_report(id).summary.total_hosts
                   = Len(get_scan_results(id))
             /\ get_json_report(id).summary.hosts_up
                   = Cardinality(HostsInState(id, "up"))
             /\ get_json_report(id).summary.hosts_down
                   = Cardinality(HostsInState(id, "down"))

\* C16: a stored scan whose status is completed or failed keeps that
\* status for as long as its row is stored: no step turns completed into
\* failed, and no cancel request changes it.
C16_TerminalStays ==
    [][\A s \in ScanIds :
         (s \in DOMAIN scans /\ s \in DOMAIN scans'
            /\ scans[s].status \in {"completed", "failed"})
            => scans'[s].status = scans[s].status]_vars

\* execute_scan for the scan has been entered and has not been left
InProgress(s) == task[s].pc \notin {"none", "scheduled", "done"}

\* C17: the keys of active_scans are the scans whose execute_scan is in
\* progress, so none is left once every task has ended; NmapScanner's
\* cancel_scan returns True for the ids that are keys and False for all
\* others, and the dict it leaves has the same keys.
C17_ActiveScansKeys ==
    /\ DOMAIN active_scans = { s \in ScanIds : InProgress(s) }
    /\ \A id \in RequestIds :
          /\ scanner_cancel_scan_returns(active_scans, id)
                = (id \in DOMAIN active_scans)
          /\ DOMAIN scanner_cancel_scan(active_scans, id) = DOMAIN active_scans
          /\ \A k \in DOMAIN active_scans :
                scanner_cancel_scan(active_scans, id)[k]
                   = IF k = id THEN FALSE ELSE active_scans[k]

C17_Witness ==
    /\ active_scans = << >>
    /\ \A s \in ScanIds : task[s].pc = "done"
    /\ \E s \in ScanIds : task[s].outcome = "raised" /\ task[s].exc = "KeyError"
    /\ \E s \in ScanIds : task[s].outcome = "returned"
    /\ response = HTTP("cancel_scan", 200)

\* no step turns completed into failed while the row is stored
CompletedNeverFailed ==
    [][\A s \in ScanIds :
         (s \in DOMAIN scans /\ s \in DOMAIN scans'
            /\ scans[s].status = "completed")
            => scans'[s].status # "failed"]_vars

Terminal == {"completed", "failed", "cancelled"}

\* C18 as written: every scan that has been created is eventually stored
\* with status completed, failed or cancelled.
C18_EveryScanEnds ==
    \A s \in ScanIds :
        (s \in DOMAIN scans)
            ~> (s \in DOMAIN scans /\ scans[s].status \in Terminal)

\* C18, amended: every scan that has been created eventually is stored
\* with status completed, failed or cancelled, or has been deleted; a
\* stored scan whose task has ended has one of these three statuses; and
\* a stored scan that has one of them never goes back to pending or
\* running.
C18_EveryStoredScanEnds ==
    /\ \A s \in ScanIds :
          (s \in DOMAIN scans)
              ~> (s \notin DOMAIN scans \/ scans[s].status \in Terminal)
    /\ [](\A s \in DOMAIN scans :
            task[s].pc = "done" => scans[s].status \in Terminal)
    /\ [][\A s \in ScanIds :
            (s \in DOMAIN scans /\ s \in DOMAIN scans'
               /\ scans[s].status \in Terminal)
               => scans'[s].status \in Terminal]_vars

C18_Witness ==
    /\ \A s \in ScanIds : task[s].pc = "done"
    /\ \E s \in DOMAIN scans : scans[s].status = "failed"
    /\ \E s \in ScanIds : s \notin DOMAIN scans /\ task[s].exc = "IntegrityError"

\* C19: at no time are more than MAX_CONCURRENT_SCANS scans in execution:
\* neither the stored scans with status running nor the keys of
\* active_scans number more than that.
C19_AtMostMaxConcurrent ==
    /\ Cardinality({ s \in DOMAIN scans : scans[s].status = "running" })
          <= MAX_CONCURRENT_SCANS
    /\ Cardinality(DOMAIN active_scans) <= MAX_CONCURRENT_SCANS

\* C20: once a scan's results are committed, each stored record carries the
\* MAC address and vendor that the normalizer extracted for its host, and
\* GET /{scan_id}/results answers 200 with them in mac_address and
\* mac_vendor.
C20_MacPersisted ==
    \A s \in DOMAIN scans :
        task[s].pc \in {"set_completed", "log_success"}
           => /\ \A i \in 1..Len(get_scan_results(s)) :
                    /\ {"mac_address", "mac_vendor"}
                          \subseteq DOMAIN get_scan_results(s)[i]
                    /\ get_scan_results(s)[i].mac_address
                          = task[s].results[i].mac_address
                    /\ get_scan_results(s)[i].mac_vendor
                          = task[s].results[i].mac_vendor
              /\ get_scan_results_response(s).code = 200
              /\ \A i \in 1..Len(get_scan_results(s)) :
                    /\ get_scan_results_response(s).body[i].mac_address
                          = task[s].results[i].mac_address
                    /\ get_scan_results_response(s).body[i].mac_vendor
                          = task[s].results[i].mac_vendor

\* ------------------------------------------------ configuration of a scan
\* the characters of the strings that arguments and configurations take
Chars ==
    ("-F -T4" :> <<"-", "F", " ", "-", "T", "4">>) @@
    ("-sV" :> <<"-", "s", "V">>) @@
    ("-v" :> <<"-", "v">>) @@
    ("T2" :> <<"T", "2">>) @@
    ("T4" :> <<"T", "4">>) @@
    ("" :> <<>>)

\* part occurs in whole
PartOf(part, whole) == Contains(Chars[whole], Chars[part])

\* the JSON object each request was sent with as its "configuration"
SuppliedConfiguration(name) ==
    CASE name = "r3" -> Some(cfg_full)
      [] name = "r7" -> Some(cfg_timing)
      [] name = "r8" -> Some(cfg_empty)
      [] name = "r9" -> Some(cfg_extra)
      [] OTHER -> None

\* the stored configuration is the supplied one: every field the request
\* gave has the given value, every field it left out has the default
StoredAsSupplied(stored, supplied) ==
    IF supplied = None THEN stored = None
    ELSE /\ stored # None
         /\ DOMAIN TheValue(stored) = DOMAIN ScanConfigurationDefaults
         /\ \A k \in DOMAIN ScanConfigurationDefaults :
               TheValue(stored)[k] =
                  IF k \in DOMAIN TheValue(supplied)
                  THEN TheValue(supplied)[k]
                  ELSE ScanConfigurationDefaults[k]

\* C21: the configuration supplied with a create_scan request governs the
\* scan: the row stores the configuration as supplied, and when nmap is run
\* for a scan that has a configuration, the configuration's timing and
\* additional_args are part of the arguments of the call.
C21_ConfigurationGoverns ==
    /\ [](\A s \in DOMAIN scans :
            StoredAsSupplied(scans[s].configuration,
                             SuppliedConfiguration(scans[s].name)))
    /\ [][\A s \in ScanIds :
             ( /\ task[s].pc = "nmap" /\ task'[s].pc = "nmap_done"
               /\ s \in DOMAIN scans
               /\ scans[s].configuration # None )
                => LET cfg == TheValue(scans[s].configuration)
                       arguments == nm'.command_line[2]
                   IN /\ PartOf(cfg.timing, arguments)
                      /\ PartOf(cfg.additional_args, arguments)]_vars

\* what holds of the stored configuration: it is the supplied one, with the
\* defaults for the fields left out, in every state
C21_ConfigurationStored ==
    \A s \in DOMAIN scans :
        StoredAsSupplied(scans[s].configuration,
                         SuppliedConfiguration(scans[s].name))

\* reached: a scan sent with timing T2 and additional_args -v is stored
\* with them and nmap has been run for it
C21_StoredReached ==
    \E s \in DOMAIN scans :
        /\ scans[s].name = "r3"
        /\ scans[s].configuration = Some(ScanConfiguration(cfg_full))
        /\ task[s].pc = "nmap_done"

====
